---------------------------- MODULE Spec2Model ----------------------------
(***************************************************************************)
(* Model of uo_hues_viewer.py: the hues.mul decoder (color16_to_rgb888,    *)
(* parse_hues) and the handlers of HuesApp that consume its result.        *)
(*                                                                         *)
(* Bytes are integers 0..255, byte strings are sequences of bytes, a       *)
(* decoded name is the sequence of its ASCII codes.  A file is described   *)
(* by its kind, its length and a seed that fixes its content (FileByte).   *)
(***************************************************************************)
EXTENDS Integers, Sequences, FiniteSets

VARIABLES
    file,       \* parse_hues: the file behind `path`
    pc,         \* position in open_file / parse_hues
    hues,       \* parse_hues: the list being built
    idx,        \* parse_hues: next index to assign
    filesize,   \* parse_hues: os.path.getsize(path)
    fopen,      \* whether the handle f is open
    fpos,       \* read position of the handle f
    pos,        \* parse_hues: running offset
    slot,       \* parse_hues: iterations of the inner for loop done in this group
    exitKind,   \* which statement ended the pass
    lastRead,   \* history: size asked of and returned by the last f.read
    nreads,     \* history: number of f.read calls
    fullBytes,  \* history: bytes returned by the reads that returned all they asked
    nopens,     \* history: number of open() calls
    appHues,    \* HuesApp.hues
    listRows,   \* rows of HuesApp.hue_list
    sel,        \* hue_list.curselection(): 0 for none, else the 1-based row
    shown,      \* what lbl_index / lbl_name / lbl_range / txt_rgb display
    status,     \* outcome of the last handler (status bar / message box)
    csv,        \* data rows of the last CSV written
    arg,        \* argument of a pure function under test
    ret         \* its result

parserVars == <<file, pc, hues, idx, filesize, fopen, fpos, pos, slot,
                exitKind, lastRead, nreads, fullBytes, nopens>>
appVars    == <<appHues, listRows, sel, shown, status, csv>>
pureVars   == <<arg, ret>>
vars       == <<parserVars, appVars, pureVars>>

---------------------------------------------------------------------------
(* Bounds of the model *)

MaxFileSize == 1480
NumSeeds == 2
MaxNameBytes == 3

---------------------------------------------------------------------------
(* Program constants *)

NUM_COLORS == 32
NAME_SIZE == 20
HUE_ENTRY_SIZE == 2 * NUM_COLORS + 2 + 2 + NAME_SIZE
HUE_GROUP_HEADER_SIZE == 4
HUES_PER_GROUP == 8
WORD_LIMIT == 65536

HUE_GROUP_SIZE == HUE_GROUP_HEADER_SIZE + HUES_PER_GROUP * HUE_ENTRY_SIZE

Min(a, b) == IF a < b THEN a ELSE b

---------------------------------------------------------------------------
(* color16_to_rgb888 *)

Shr(x, n) == x \div (2 ^ n)
And1F(x) == x % 32

ScaleRound(f) == (f * 255 + 15) \div 31
Scale(f) == (f * 255) \div 31

color16_to_rgb888(c16) ==
    LET r5 == And1F(Shr(c16, 10))
        g5 == And1F(Shr(c16, 5))
        b5 == And1F(c16)
    IN  <<Scale(r5), Scale(g5), Scale(b5)>>

---------------------------------------------------------------------------
(* The file and f.read *)

FileByte(f, p) == (f.seed * 89 + p * 37 + (p \div 11) * 101 + (p \div 88) * 7) % 256

ReadBytes(f, at, n) ==
    [i \in 1 .. Min(n, IF f.len > at THEN f.len - at ELSE 0) |-> FileByte(f, at + i - 1)]

OkFiles(sizes) == [kind : {"ok"}, len : sizes, seed : 1 .. NumSeeds]
BadFiles == {[kind |-> "missing", len |-> 0, seed |-> 1],
             [kind |-> "locked", len |-> 0, seed |-> 1]}
Files == OkFiles(0 .. MaxFileSize) \cup BadFiles

---------------------------------------------------------------------------
(* struct.unpack and the name *)

U16BE(data, off) == 256 * data[off + 1] + data[off + 2]
U16(data, off) == data[off + 1] + 256 * data[off + 2]

IsSpace(c) == c \in (9 .. 13) \cup (28 .. 32)

RECURSIVE UpToNul(_)
UpToNul(s) ==
    IF s = <<>> \/ Head(s) = 0 THEN <<>> ELSE <<Head(s)>> \o UpToNul(Tail(s))

AsciiIgnore(s) == SelectSeq(s, LAMBDA c : c < 128)

RECURSIVE LStrip(_)
LStrip(s) == IF s # <<>> /\ IsSpace(Head(s)) THEN LStrip(Tail(s)) ELSE s

RECURSIVE RStrip(_)
RStrip(s) ==
    IF s # <<>> /\ IsSpace(s[Len(s)]) THEN RStrip(SubSeq(s, 1, Len(s) - 1)) ELSE s

Strip(s) == RStrip(LStrip(s))

DecodeNameNoSplit(rawname) == Strip(AsciiIgnore(rawname))
DecodeName(rawname) == Strip(AsciiIgnore(UpToNul(rawname)))

MakeEntry(data, i) ==
    LET colors16 == [k \in 1 .. NUM_COLORS |-> U16(data, 2 * (k - 1))]
    IN  [index     |-> i,
         name      |-> DecodeName(SubSeq(data, 2 * NUM_COLORS + 5, HUE_ENTRY_SIZE)),
         start     |-> U16(data, 2 * NUM_COLORS),
         end       |-> U16(data, 2 * NUM_COLORS + 2),
         colors16  |-> colors16,
         colorsRGB |-> [k \in 1 .. NUM_COLORS |-> color16_to_rgb888(colors16[k])]]

---------------------------------------------------------------------------
(* parse_hues *)

NoRead == [want |-> 0, got |-> 0]

ParserReset ==
    /\ hues = <<>> /\ idx = 1 /\ filesize = 0 /\ fopen = FALSE /\ fpos = 0
    /\ pos = 0 /\ slot = 0 /\ exitKind = "none" /\ lastRead = NoRead
    /\ nreads = 0 /\ fullBytes = 0 /\ nopens = 0

IsShortLE(data, n) == data = <<>> \/ Len(data) <= n
IsShort(data, n) == data = <<>> \/ Len(data) < n

NextIdxSame(i) == i
NextIdx(i) == i + 1

GetSize ==
    /\ pc = "start"
    /\ IF file.kind = "missing"
       THEN pc' = "raised" /\ UNCHANGED filesize
       ELSE pc' = "open" /\ filesize' = file.len
    /\ UNCHANGED <<file, hues, idx, fopen, fpos, pos, slot, exitKind, lastRead,
                   nreads, fullBytes, nopens>>
    /\ UNCHANGED <<appVars, pureVars>>

OpenFile ==
    /\ pc = "open"
    /\ IF file.kind = "locked"
       THEN pc' = "raised" /\ UNCHANGED <<fopen, nopens>>
       ELSE pc' = "header" /\ fopen' = TRUE /\ nopens' = nopens + 1
    /\ fpos' = 0
    /\ pos' = 0
    /\ UNCHANGED <<file, hues, idx, filesize, slot, exitKind, lastRead, nreads,
                   fullBytes>>
    /\ UNCHANGED <<appVars, pureVars>>

ShortHeaderRaise(hdr) == pc' = "raised" /\ exitKind' = "error"
ShortHeaderExit(hdr) ==
    /\ pc' = "exit"
    /\ exitKind' = IF hdr = <<>> THEN "eof" ELSE "short_marker"

ReadHeader ==
    /\ pc = "header"
    /\ LET hdr == ReadBytes(file, fpos, HUE_GROUP_HEADER_SIZE)
       IN  /\ fpos' = fpos + Len(hdr)
           /\ lastRead' = [want |-> HUE_GROUP_HEADER_SIZE, got |-> Len(hdr)]
           /\ nreads' = nreads + 1
           /\ fullBytes' = fullBytes + (IF Len(hdr) = HUE_GROUP_HEADER_SIZE THEN Len(hdr) ELSE 0)
           /\ pos' = pos + Len(hdr)
           /\ IF IsShort(hdr, HUE_GROUP_HEADER_SIZE)
              THEN ShortHeaderExit(hdr) /\ UNCHANGED slot
              ELSE pc' = "entry" /\ slot' = 0 /\ UNCHANGED exitKind
    /\ UNCHANGED <<file, hues, idx, filesize, fopen, nopens>>
    /\ UNCHANGED <<appVars, pureVars>>

ShortRecordBreak == pc' = "check" /\ UNCHANGED exitKind
ShortRecordNoClose == pc' = "done" /\ exitKind' = "truncated"
ShortRecordExit == pc' = "exit" /\ exitKind' = "truncated"

PosAfterAny(p, data) == p + Len(data)
PosAfter(p, data) == IF IsShort(data, HUE_ENTRY_SIZE) THEN p ELSE p + Len(data)

ReadEntry ==
    /\ pc = "entry"
    /\ LET data == ReadBytes(file, fpos, HUE_ENTRY_SIZE)
       IN  /\ fpos' = fpos + Len(data)
           /\ lastRead' = [want |-> HUE_ENTRY_SIZE, got |-> Len(data)]
           /\ nreads' = nreads + 1
           /\ fullBytes' = fullBytes + (IF Len(data) = HUE_ENTRY_SIZE THEN Len(data) ELSE 0)
           /\ pos' = PosAfter(pos, data)
           /\ IF IsShort(data, HUE_ENTRY_SIZE)
              THEN ShortRecordExit /\ UNCHANGED <<hues, idx, slot>>
              ELSE /\ hues' = Append(hues, MakeEntry(data, idx))
                   /\ idx' = NextIdx(idx)
                   /\ slot' = slot + 1
                   /\ pc' = IF slot + 1 = HUES_PER_GROUP THEN "check" ELSE "entry"
                   /\ UNCHANGED exitKind
    /\ UNCHANGED <<file, filesize, fopen, nopens>>
    /\ UNCHANGED <<appVars, pureVars>>

CheckOvershoot ==
    /\ pc = "check"
    /\ IF pos >= filesize
       THEN pc' = "exit" /\ exitKind' = "overshoot"
       ELSE pc' = "header" /\ UNCHANGED exitKind
    /\ UNCHANGED <<file, hues, idx, filesize, fopen, fpos, pos, slot, lastRead,
                   nreads, fullBytes, nopens>>
    /\ UNCHANGED <<appVars, pureVars>>

CloseFile ==
    /\ pc = "exit"
    /\ fopen' = FALSE
    /\ pc' = "done"
    /\ UNCHANGED <<file, hues, idx, filesize, fpos, pos, slot, exitKind, lastRead,
                   nreads, fullBytes, nopens>>
    /\ UNCHANGED <<appVars, pureVars>>

ParseStep ==
    \/ GetSize
    \/ OpenFile
    \/ ReadHeader
    \/ ReadEntry
    \/ CheckOvershoot
    \/ CloseFile

---------------------------------------------------------------------------
(* HuesApp *)

NoFile == [kind |-> "none", len |-> 0, seed |-> 0]
NoShown == [index |-> 0, name |-> <<>>, start |-> 0, end |-> 0, rgb |-> <<>>]
NoArg == [kind |-> "none", val |-> <<>>]
NoRet == [done |-> FALSE, val |-> <<>>]

AppSizes == {0, 3, 100, HUE_GROUP_SIZE + 50, 2 * HUE_GROUP_SIZE}
\* two contents per size are enough to tell a reload from the previous load
AppFiles == {f \in OkFiles(AppSizes) : f.seed \in {1, NumSeeds}} \cup BadFiles

\* "(no name)"
NoNameText == <<40, 110, 111, 32, 110, 97, 109, 101, 41>>

Label(h) == [index |-> h.index, text |-> IF h.name = <<>> THEN NoNameText ELSE h.name]

Details(h) ==
    [index |-> h.index,
     name  |-> IF h.name = <<>> THEN NoNameText ELSE h.name,
     start |-> h.start,
     end   |-> h.end,
     rgb   |-> h.colorsRGB]

CsvRow(h) ==
    [index |-> h.index, name |-> h.name, start |-> h.start, end |-> h.end,
     cells |-> [j \in 1 .. 3 * Len(h.colorsRGB) |->
                   h.colorsRGB[((j - 1) \div 3) + 1][((j - 1) % 3) + 1]]]

AppReset ==
    /\ appHues = <<>> /\ listRows = <<>> /\ sel = 0 /\ shown = NoShown
    /\ status = "ready" /\ csv = <<>>

PureReset == arg = NoArg /\ ret = NoRet

\* the locals of parse_hues and open_file go out of scope
ForgetLocals ==
    /\ file' = NoFile /\ hues' = <<>> /\ idx' = 1 /\ filesize' = 0
    /\ fopen' = FALSE /\ fpos' = 0 /\ pos' = 0 /\ slot' = 0
    /\ exitKind' = "none" /\ lastRead' = NoRead /\ nreads' = 0
    /\ fullBytes' = 0 /\ nopens' = 0

open_file_cancel ==
    /\ pc = "idle"
    /\ UNCHANGED <<parserVars, appVars, pureVars>>

open_file_begin ==
    /\ pc = "idle"
    /\ \E f \in AppFiles : file' = f
    /\ pc' = "start"
    /\ UNCHANGED <<hues, idx, filesize, fopen, fpos, pos, slot, exitKind, lastRead,
                   nreads, fullBytes, nopens>>
    /\ UNCHANGED <<appVars, pureVars>>

HasHuesAlways(hs) == TRUE
HasHues(hs) == hs # <<>>

RowsAfterPopulate(hs) == [k \in 1 .. Len(hs) |-> Label(hs[k])]

populate_list(hs) ==
    /\ listRows' = RowsAfterPopulate(hs)
    /\ IF hs # <<>>
       THEN sel' = 1 /\ shown' = Details(hs[1])
       ELSE sel' = 0 /\ UNCHANGED shown

open_file_failed ==
    /\ pc = "raised" \/ (pc = "done" /\ ~HasHues(hues))
    /\ status' = "error"
    /\ pc' = "idle"
    /\ ForgetLocals
    /\ UNCHANGED <<appHues, listRows, sel, shown, csv>>
    /\ UNCHANGED pureVars

open_file_loaded ==
    /\ pc = "done" /\ HasHues(hues)
    /\ appHues' = hues
    /\ populate_list(hues)
    /\ status' = "loaded"
    /\ pc' = "idle"
    /\ ForgetLocals
    /\ UNCHANGED csv
    /\ UNCHANGED pureVars

on_select ==
    /\ pc = "idle"
    /\ \/ /\ sel = 0
          /\ UNCHANGED <<sel, shown, status>>
       \/ \E r \in 1 .. Len(listRows) :
             /\ sel' = r
             /\ IF r \in DOMAIN appHues
                THEN shown' = Details(appHues[r]) /\ UNCHANGED status
                ELSE status' = "index_error" /\ UNCHANGED shown
    /\ UNCHANGED <<appHues, listRows, csv>>
    /\ UNCHANGED <<parserVars, pureVars>>

export_csv ==
    /\ pc = "idle"
    /\ \/ /\ appHues = <<>>
          /\ status' = "export_nothing"
          /\ UNCHANGED csv
       \/ /\ appHues # <<>>
          /\ UNCHANGED <<status, csv>>
       \/ /\ appHues # <<>>
          /\ csv' = [k \in 1 .. Len(appHues) |-> CsvRow(appHues[k])]
          /\ status' = "saved"
       \/ /\ appHues # <<>>
          /\ status' = "export_error"
          /\ UNCHANGED csv
    /\ UNCHANGED <<appHues, listRows, sel, shown>>
    /\ UNCHANGED <<parserVars, pureVars>>

---------------------------------------------------------------------------
(* The pure functions applied to drawn inputs *)

NameAlphabet == {0, 1, 9, 32, 65, 200}

RECURSIVE SeqsUpTo(_, _)
SeqsUpTo(S, n) ==
    IF n = 0 THEN {<<>>}
    ELSE LET shorter == SeqsUpTo(S, n - 1)
         IN  shorter \cup {Append(s, c) : s \in shorter, c \in S}

PadTo(p, fill) == p \o [i \in 1 .. NAME_SIZE - Len(p) |-> fill]

\* "Red"
RedBytes == <<82, 101, 100>>

NameFields ==
    {PadTo(p, fill) : p \in SeqsUpTo(NameAlphabet, MaxNameBytes), fill \in {0, 65}}
        \cup {PadTo(RedBytes, 0)}

ApplyColor ==
    /\ pc = "pure" /\ arg.kind = "word" /\ ~ret.done
    /\ ret' = [done |-> TRUE, val |-> color16_to_rgb888(arg.val)]
    /\ UNCHANGED <<arg, parserVars, appVars>>

ApplyName ==
    /\ pc = "pure" /\ arg.kind = "name" /\ ~ret.done
    /\ ret' = [done |-> TRUE, val |-> DecodeName(arg.val)]
    /\ UNCHANGED <<arg, parserVars, appVars>>

---------------------------------------------------------------------------
(* Specifications *)

\* parse_hues on one file
Init ==
    /\ file \in Files
    /\ pc = "start"
    /\ ParserReset
    /\ AppReset
    /\ PureReset

Next == ParseStep

Spec == Init /\ [][Next]_vars

\* the application after construction, handlers run one at a time
InitApp ==
    /\ file = NoFile
    /\ pc = "idle"
    /\ ParserReset
    /\ AppReset
    /\ PureReset

NextApp ==
    \/ open_file_cancel
    \/ open_file_begin
    \/ ParseStep
    \/ open_file_failed
    \/ open_file_loaded
    \/ on_select
    \/ export_csv

SpecApp == InitApp /\ [][NextApp]_vars

\* color16_to_rgb888 on every 16-bit word, the name decoding on drawn fields
InitPure ==
    /\ file = NoFile
    /\ pc = "pure"
    /\ ParserReset
    /\ AppReset
    /\ arg \in [kind : {"word"}, val : 0 .. WORD_LIMIT - 1]
                 \cup [kind : {"name"}, val : NameFields]
    /\ ret = NoRet

NextPure == ApplyColor \/ ApplyName

SpecPure == InitPure /\ [][NextPure]_vars

---------------------------------------------------------------------------
(* Properties *)

\* bit i of w, and the 5-bit field starting at bit lo
BitOf(w, i) == (w \div (2 ^ i)) % 2
FieldOf(w, lo) ==
    BitOf(w, lo) + 2 * BitOf(w, lo + 1) + 4 * BitOf(w, lo + 2)
        + 8 * BitOf(w, lo + 3) + 16 * BitOf(w, lo + 4)

\* c is floor(f * 255 / 31)
IsFloorScale(c, f) == 31 * c <= f * 255 /\ f * 255 < 31 * (c + 1)

\* the channels of result rgb are the truncated scalings of the fields of w,
\* each in 0..255, and bit 15 of w does not matter
TruncatedChannels(w, rgb) ==
    LET f == <<FieldOf(w, 10), FieldOf(w, 5), FieldOf(w, 0)>>
    IN  /\ Len(rgb) = 3
        /\ \A c \in 1 .. 3 :
              /\ rgb[c] \in 0 .. 255
              /\ IsFloorScale(rgb[c], f[c])
              /\ f[c] = 0 => rgb[c] = 0
              /\ f[c] = 31 => rgb[c] = 255
        /\ rgb = color16_to_rgb888((w + 32768) % 65536)

\* C1 as stated: color16_to_rgb888 returns, for every 16-bit word, the
\* truncated scaling of bits 10-14, 5-9 and 0-4; every channel is in 0..255,
\* bit 15 does not matter, fields 0, 16, 31 give 0, 130, 255 and the word
\* 0b0_10000_01000_00100 gives (130, 65, 32).
C1_AsStated ==
    (ret.done /\ arg.kind = "word") =>
        /\ TruncatedChannels(arg.val, ret.val)
        /\ \A c \in 1 .. 3 :
              FieldOf(arg.val, 15 - 5 * c) = 16 => ret.val[c] = 130
        /\ arg.val = 16644 => ret.val = <<130, 65, 32>>

\* C1 (amended): as stated, except that field 16 gives
\* floor(16 * 255 / 31) = 131 and the word 0b0_10000_01000_00100 gives
\* (131, 65, 32).
C1_ColorDecode ==
    (ret.done /\ arg.kind = "word") =>
        /\ TruncatedChannels(arg.val, ret.val)
        /\ \A c \in 1 .. 3 :
              FieldOf(arg.val, 15 - 5 * c) = 16 => ret.val[c] = 131
        /\ arg.val = 16644 => ret.val = <<131, 65, 32>>

C1_Witness ==
    ret.done /\ arg.kind = "word" /\ arg.val = 16644 + 32768 /\ ret.val = <<131, 65, 32>>

\* the state of a pass that has returned
Returned == pc = "done" /\ file.kind = "ok"

\* C2: a file of L = 708 * g bytes decodes to exactly 8 * g entries, each
\* with 32 colors16 and 32 colorsRGB, and the pass returns normally.
C2_WholeGroups ==
    (file.kind = "ok" /\ file.len % 708 = 0) =>
        /\ pc # "raised"
        /\ pc = "done" \/ ENABLED Next
        /\ pc = "done" =>
              /\ Len(hues) = 8 * (file.len \div 708)
              /\ \A k \in 1 .. Len(hues) :
                    Len(hues[k].colors16) = 32 /\ Len(hues[k].colorsRGB) = 32

C2_Witness == Returned /\ file.len = 2 * 708 /\ Len(hues) = 16

\* offset in the file of the k-th record (k from 1)
RecordOffset(k) == 4 * (((k - 1) \div 8) + 1) + 88 * (k - 1)

\* the 16-bit little-endian word of the file at offset p
WordAt(p) == FileByte(file, p) + 256 * FileByte(file, p + 1)

\* entry e is the decoding of the k-th record of the file
IsRecord(e, k) ==
    LET off == RecordOffset(k)
    IN  /\ off + 88 <= file.len
        /\ Len(e.colors16) = 32
        /\ Len(e.colorsRGB) = 32
        /\ \A i \in 0 .. 31 :
              /\ e.colors16[i + 1] = WordAt(off + 2 * i)
              /\ e.colorsRGB[i + 1] = color16_to_rgb888(e.colors16[i + 1])
        /\ e.start = WordAt(off + 64)
        /\ e.end = WordAt(off + 66)

\* number of records of a file of L bytes that are complete
FullRecords(L) ==
    8 * (L \div 708) + (IF L % 708 < 4 THEN 0 ELSE ((L % 708) - 4) \div 88)

ShortRecordRead == lastRead.want = 88 /\ lastRead.got < 88
ShortMarkerRead == lastRead.want = 4 /\ lastRead.got < 4

\* C3: a record read that returns fewer than 88 bytes ends the pass at once:
\* no error, no further read, and the result is the full records before the
\* cut, in file order; 708 + 50 bytes give 8 entries.
C3_TruncatedRecord ==
    /\ [](ShortRecordRead =>
            /\ pc \in {"exit", "done"}
            /\ exitKind = "truncated"
            /\ Len(hues) = FullRecords(file.len)
            /\ \A k \in 1 .. Len(hues) : IsRecord(hues[k], k) /\ hues[k].index = k
            /\ file.len = 708 + 50 => Len(hues) = 8)
    /\ [][ShortRecordRead => (nreads' = nreads /\ hues' = hues /\ pc' = "done")]_vars

C3_Witness ==
    Returned /\ ShortRecordRead /\ file.len = 708 + 50 /\ Len(hues) = 8 /\ nreads = 11

\* C4: a marker read that returns 0..3 bytes ends the pass normally with the
\* entries of the complete groups before it; a zero-byte file gives <<>>.
C4_ShortMarker ==
    /\ ShortMarkerRead =>
          /\ pc \in {"exit", "done"}
          /\ exitKind = (IF lastRead.got = 0 THEN "eof" ELSE "short_marker")
          /\ Len(hues) = 8 * (file.len \div 708)
          /\ \A k \in 1 .. Len(hues) : IsRecord(hues[k], k) /\ hues[k].index = k
    /\ (file.kind = "ok" /\ file.len = 0) =>
          /\ hues = <<>>
          /\ pc # "raised"
          /\ pc = "done" => ShortMarkerRead /\ exitKind = "eof"

C4_Witness ==
    Returned /\ ShortMarkerRead /\ lastRead.got = 2 /\ exitKind = "short_marker"
        /\ Len(hues) = 8

\* C5: the k-th entry has index k, and the next index to assign is the
\* number of entries produced plus 1, across group boundaries.
C5_Indexes ==
    /\ idx = Len(hues) + 1
    /\ \A k \in 1 .. Len(hues) : hues[k].index = k

C5_Witness == pc = "entry" /\ Len(hues) = 9 /\ hues[9].index = 9 /\ idx = 10

\* C6 as stated: the name is the field with its trailing zero and
\* non-printable bytes stripped and its non-ASCII bytes dropped.
Printable(c) == c >= 32 /\ c # 127

RECURSIVE TrimTrailing(_)
TrimTrailing(s) ==
    IF s # <<>> /\ (s[Len(s)] = 0 \/ ~Printable(s[Len(s)]))
    THEN TrimTrailing(SubSeq(s, 1, Len(s) - 1))
    ELSE s

C6_AsStated ==
    (ret.done /\ arg.kind = "name") =>
        ret.val = SelectSeq(TrimTrailing(arg.val), LAMBDA c : c < 128)

\* positions of the field before its first zero byte that hold ASCII bytes
KeptPositions(f) ==
    {i \in 1 .. Len(f) : f[i] < 128 /\ \A j \in 1 .. i : f[j] # 0}

Whitespace == {9, 10, 11, 12, 13, 28, 29, 30, 31, 32}

NamePositions(f) ==
    LET kept == KeptPositions(f)
        ink  == {i \in kept : f[i] \notin Whitespace}
    IN  {i \in kept : (\E a \in ink : a <= i) /\ (\E b \in ink : i <= b)}

\* C6 (amended): name decoding never fails; the name is the bytes before the
\* first zero byte, without the non-ASCII ones, with leading and trailing
\* whitespace stripped; 'Red' followed by zero padding gives 'Red'.
C6_NameDecode ==
    (ret.done /\ arg.kind = "name") =>
        LET f == arg.val
            P == NamePositions(f)
        IN  /\ Len(ret.val) = Cardinality(P)
            /\ \A i \in P : ret.val[Cardinality({j \in P : j <= i})] = f[i]
            /\ f = PadTo(RedBytes, 0) => ret.val = RedBytes

C6_Witness ==
    ret.done /\ arg.kind = "name" /\ arg.val = PadTo(<<32, 65, 0>>, 65) /\ ret.val = <<65>>

\* C7: every entry of the output is the decoding of one fully read 88-byte
\* record, in file order (colors16 the 32 words, colorsRGB their conversion,
\* start and end unchanged); the output only grows, by one entry per full
\* read, and no entry is changed or removed.
C7_WholeRecords ==
    /\ [](\A k \in 1 .. Len(hues) : IsRecord(hues[k], k))
    /\ [][\/ hues' = hues
          \/ /\ Len(hues') = Len(hues) + 1
             /\ SubSeq(hues', 1, Len(hues)) = hues
             /\ lastRead'.want = 88 /\ lastRead'.got = 88
             /\ nreads' = nreads + 1]_vars

C7_Witness ==
    /\ pc = "done" /\ exitKind = "truncated" /\ lastRead.got = 87
    /\ Len(hues) = 9
    /\ hues[9].start = WordAt(RecordOffset(9) + 64)

\* C8: the file is opened once, before the first read, and is closed on
\* every way the pass ends; nothing is read after the close.
C8_ScopedHandle ==
    /\ [](/\ nopens <= 1
          /\ nreads > 0 => nopens = 1
          /\ pc \in {"header", "entry", "check", "exit"} => fopen /\ nopens = 1
          /\ pc = "done" =>
                /\ ~fopen
                /\ nopens = 1
                /\ exitKind \in {"eof", "short_marker", "truncated", "overshoot"}
          /\ pc = "raised" => ~fopen)
    /\ [][nreads' # nreads => fopen]_vars
    /\ [][(nopens = 1 /\ ~fopen) => (nreads' = nreads /\ ~fopen' /\ nopens' = 1)]_vars

C8_Witness == pc = "done" /\ exitKind = "truncated" /\ ~fopen /\ nopens = 1 /\ nreads = 3

\* the part of C9 that holds as stated: pos never exceeds filesize, and the
\* check pos >= filesize fires only with pos = filesize right after a complete
\* group, when the next marker read would return nothing
OvershootOnlyAtEnd ==
    /\ pos <= filesize
    /\ (pc = "check" /\ pos >= filesize) =>
          /\ pos = filesize
          /\ slot = 8
          /\ Len(hues) % 8 = 0
          /\ ReadBytes(file, fpos, 4) = <<>>
    /\ exitKind = "overshoot" => Len(hues) = FullRecords(file.len)

SizeIsLength == pc \notin {"start", "raised"} /\ filesize = file.len

\* C9 as stated: pos is the number of bytes consumed by complete marker and
\* complete record reads.
C9_AsStated == SizeIsLength => (pos = fullBytes /\ OvershootOnlyAtEnd)

\* C9 (amended): pos is the number of bytes returned by the marker reads,
\* complete or short, and by the complete record reads; it never exceeds
\* filesize, and the check pos >= filesize fires only with pos = filesize
\* after a complete group of 8, where the next marker read returns nothing.
C9_RunningOffset ==
    SizeIsLength =>
        /\ pos = fullBytes + (IF ShortMarkerRead THEN lastRead.got ELSE 0)
        /\ OvershootOnlyAtEnd

C9_Witness ==
    /\ pc = "check" /\ pos >= filesize /\ filesize = 2 * 708 /\ Len(hues) = 16

\* C10: the list shows one row per element of self.hues, in order, so every
\* row is a valid index; self.hues changes only to a non-empty decoded
\* sequence, and an open_file that is cancelled, raises or decodes nothing
\* leaves self.hues and the rows as they were.
C10_ListMatchesHues ==
    /\ [](/\ Len(listRows) = Len(appHues)
          /\ \A k \in 1 .. Len(listRows) :
                /\ listRows[k].index = appHues[k].index
                /\ listRows[k].text =
                      (IF appHues[k].name = <<>> THEN NoNameText ELSE appHues[k].name)
          /\ sel \in 0 .. Len(appHues)
          /\ status # "index_error")
    /\ [][appHues' # appHues => (pc = "done" /\ appHues' = hues /\ appHues' # <<>>)]_vars
    /\ [][(pc = "raised" \/ (pc = "done" /\ hues = <<>>) \/ pc' = pc)
            => (appHues' = appHues /\ listRows' = listRows)]_vars

C10_Witness ==
    /\ pc = "idle" /\ status = "error" /\ Len(appHues) = 8 /\ Len(listRows) = 8
    /\ sel = 5 /\ shown.index = 5

=============================================================================
